---- MODULE Spec2Model ----
(***************************************************************************)
(* Model of the project detail page (src/unnamed/part_000, the page that   *)
(* App.tsx imports as ProjectDetailPage) and of the gateway in App.tsx:    *)
(*   - the export flow: createExportMutation, its setInterval poll         *)
(*     callback, exportApi.getStatus and exportApi.download;               *)
(*   - the ['project', id] query, the optimistic updateTaskMutation,       *)
(*     createTaskMutation and deleteTaskMutation;                          *)
(*   - DashboardPage's ['projects'] query and its createProjectMutation,   *)
(*     updateProjectMutation and deleteProjectMutation;                    *)
(*   - staleTime and gcTime of both queries under a clock;                 *)
(*   - apiRequest and exportApi.download, await by await, for every        *)
(*     response and with calls in flight at once;                          *)
(*   - the router, ProtectedRoute and the session in localStorage.         *)
(* A response to a query carries a value the backend held between the      *)
(* moment the request was sent and the moment the response is delivered;   *)
(* a request that fails is sent once more (retry: 1), with the token       *)
(* stored at that moment.                                                  *)
(* Every handler runs to its next await on the single JavaScript thread,   *)
(* so one action is one handler run between two suspension points; an      *)
(* await that settles in a microtask resumes before the next event.        *)
(* The query client is TanStack Query 5.17, as the README names it.        *)
(***************************************************************************)
EXTENDS Naturals, Sequences, FiniteSets

\* ------------------------------------------------------------------ bounds
\* Exports the user may request in one behaviour.
MaxExports == 2
\* Status requests issued in one behaviour of ExportSpec, over all exports.
MaxPolls == 2
\* Page instances (mounts of ProjectDetailPage) in one behaviour.
MaxInstances == 2
\* updateTaskMutation.mutate calls in one behaviour.
MaxMutations == 2
\* Projects, and tasks, created in one behaviour.
MaxCreates == 1
\* Delete calls of a kind, of tasks or of projects, unresolved at once.
MaxDeletes == 1

\* ------------------------------------------------------- program constants
\* setInterval(..., 1000)
PollIntervalMs == 1000
\* DESIGN.md, Scenario 3: "If export takes too long (>60 seconds)".
TimeoutBudgetMs == 60000
\* useQuery(['project', id]): staleTime and gcTime.
StaleTimeMs == 20000
GcTimeMs == 180000
\* useQuery(['projects']): staleTime and gcTime.
ListStaleTimeMs == 30000
ListGcTimeMs == 300000
\* new QueryClient({ defaultOptions: { queries: { retry: 1 } } }): the failed
\* requests of one fetch after which the queryFn is called again.
Retry == 1

\* ------------------------------------------------------------------- state
VARIABLES
  mounted,        \* a ProjectDetailPage instance is on screen
  instance,       \* number of the current (or last) page instance
  isExporting,    \* useState(false) of the current instance
  creating,       \* page instances whose exportApi.create call is unresolved
  watchers,       \* one record per onSuccess run, indexed by exportId
  alerts,         \* window.alert calls made
  consoleErrors,  \* console.error calls made
  server,         \* the project as the backend holds it
  cacheData,      \* queryClient's data for ['project', id]
  isInvalidated,  \* the query is marked invalidated
  fetching,       \* projectApi.getById is in flight for the query
  queryError,     \* the query's error (useQuery's `error`) is set
  mutations,      \* updateTaskMutation runs, in call order
  age,            \* ms since the query's dataUpdatedAt, counted up to gcTime
  idle,           \* ms the query's gc timer has run, counted up to gcTime
  taskCreates,    \* page instances whose taskApi.create call is unresolved
  taskDeletes,    \* task ids of the unresolved taskApi.delete calls, in call order
  lastTaskId,     \* the last task id the backend has handed out
  dashboard,      \* a DashboardPage instance is on screen
  dashInstance,   \* number of the current (or last) DashboardPage instance
  projectCreates, \* dashboard instances whose projectApi.create is unresolved
  projectUpdates, \* dashboard instances whose projectApi.update is unresolved
  projectDeletes, \* project ids of the unresolved projectApi.delete calls
  created,        \* the projects created so far, as the backend holds them
  listData,       \* queryClient's data for ['projects'], as [projects |-> list]
  listInvalidated,\* the ['projects'] query is marked invalidated
  listFetching,   \* projectApi.getAll is in flight for the query
  listError,      \* the ['projects'] query's error is set
  listAge,        \* ms since its dataUpdatedAt, counted up to its gcTime
  listIdle,       \* ms its gc timer has run, counted up to its gcTime
  token,          \* localStorage's 'token' item
  calls,          \* the apiRequest and download calls followed, by slot
  sentAs,         \* the token the getById call in flight was sent with
  failureCount,   \* the requests of the getById fetch in flight that failed
  answers,        \* what the backend held since the getById call was sent
  revertState,    \* Query.#revertState of the getById fetch in flight
  cachedAs,       \* the token of the call whose answer ['project', id] holds
  listSentAs,     \* the token the getAll call in flight was sent with
  listFailureCount, \* the requests of the getAll fetch in flight that failed
  listAnswers,    \* what the backend held since the getAll call was sent
  listCachedAs,   \* the token of the call whose answer ['projects'] holds
  user,           \* localStorage's 'user' item
  requested,      \* the path the router was last asked for
  location        \* the path the router settled on, after its redirects

pageVars == <<mounted, instance>>

exportVars == <<isExporting, creating, watchers, alerts, consoleErrors>>

cacheVars == <<server, cacheData, isInvalidated, fetching, queryError, mutations,
               age, idle, sentAs, failureCount, answers, revertState, cachedAs>>

taskVars == <<taskCreates, taskDeletes, lastTaskId>>

projectEdits == <<projectUpdates, projectDeletes>>

\* The dashboard and its query, but for what the backend may answer.
dashVars == <<dashboard, dashInstance, projectCreates, projectEdits, created,
              listData,
              listInvalidated, listFetching, listError, listAge, listIdle,
              listSentAs, listFailureCount, listCachedAs>>

listVars == <<dashVars, listAnswers>>

gatewayVars == <<token, calls>>

sessionVars == <<user, requested, location>>

\* What the handlers of the detail page's export flow and of its task updates
\* never touch.
restVars == <<taskVars, listVars, gatewayVars, sessionVars>>

vars == <<mounted, instance, isExporting, creating, watchers, alerts,
          consoleErrors, server, cacheData, isInvalidated, fetching,
          queryError, mutations, age, idle, taskCreates, taskDeletes,
          lastTaskId, dashboard, dashInstance, projectCreates,
          projectUpdates, projectDeletes, created, listData, listInvalidated,
          listFetching, listError, listAge, listIdle, token, calls,
          sentAs, failureCount, answers, revertState, cachedAs, listSentAs,
          listFailureCount, listAnswers, listCachedAs, user,
          requested,
          location>>

\* ExportStatus.status, and a rejected getStatus promise.
JobStatuses == {"PENDING", "PROCESSING", "COMPLETED", "FAILED"}
Replies == JobStatuses \cup {"ERROR"}

NoReplies == [r \in Replies |-> 0]

\* The answers the export flow is followed with: the poll callback has one
\* branch for PENDING and PROCESSING, which TimeoutSpec follows both.
ExportReplies == Replies \ {"PROCESSING"}

\* The closure state of one onSuccess run: its interval handle, the requests
\* it has in flight and the download calls it has made.
NewWatcher(i) ==
  [owner |-> i,          \* page instance whose setIsExporting the closure holds
   timer |-> TRUE,       \* pollInterval is armed
   ticks |-> 0,          \* times the interval callback has fired
   pending |-> 0,        \* getStatus requests the server has not answered
   replies |-> NoReplies,\* answers on their way to the callback
   downloading |-> 0,    \* exportApi.download promises unresolved
   downloads |-> 0]      \* exportApi.download calls made

ExportIds == DOMAIN watchers

\* A callback that forgets clearInterval: the timer stays armed.
ClearIntervalForgotten(w) == w

\* clearInterval(pollInterval) in the closure of watcher w.
ClearInterval(w) == [w EXCEPT !.timer = FALSE]

\* setIsExporting(v) called from the closure of page instance i: a state update
\* of an instance that is no longer mounted is dropped by React.
SetIsExporting(i, v) == IF mounted /\ i = instance THEN v ELSE isExporting

\* queryClient.getQueryData of a key that holds nothing.
Undefined == [undefined |-> TRUE]

\* localStorage.getItem of an item that is not stored; no call made yet.
Null == [null |-> TRUE]

\* What localStorage holds under 'token': nothing, or the token a login stored.
StoredItems == {Null, [value |-> "jwt-a"], [value |-> "jwt-b"]}

\* if (token): null and the empty string are falsy.
Truthy(item) == item # Null /\ item.value # ""

\* The paths asked of the router here: its four routes, the root, and a path
\* that matches none of them.
Paths == {"/login", "/register", "/dashboard", "/projects/:id", "/", "/nowhere"}

\* The routes whose element is wrapped in <ProtectedRoute>.
ProtectedPaths == {"/dashboard", "/projects/:id"}

\* <Routes>: the route a path ends at; "/" and "*" navigate to /dashboard.
RouteOf(path) ==
  IF path \in {"/login", "/register", "/dashboard", "/projects/:id"}
    THEN path
    ELSE "/dashboard"

\* A wrapper that renders its children whatever is stored.
Unprotected(item, path) == path

\* ProtectedRoute around the element of `path`: without a token it renders
\* <Navigate to="/login" replace />, with one its children.
ProtectedRoute(item, path) == IF ~Truthy(item) THEN "/login" ELSE path

\* Where the router settles when asked for `path` with `item` stored.
Resolve(path, item) ==
  IF RouteOf(path) \in ProtectedPaths
    THEN ProtectedRoute(item, RouteOf(path))
    ELSE RouteOf(path)

\* The page is past its loading and error returns and renders the project.
PageShowsProject == mounted /\ ~queryError /\ cacheData # Undefined

\* The error texts the page renders: only the query's, on its error screen.
RenderedErrors ==
  IF mounted /\ ~(fetching /\ cacheData = Undefined)
             /\ (queryError \/ cacheData = Undefined)
    THEN {"project"}
    ELSE {}

\* disabled={isExporting || createExportMutation.isPending}
ExportButtonDisabled == isExporting \/ instance \in creating

\* exportApi.create calls that are unresolved or have started a watcher.
Requested == Len(watchers) + Cardinality(creating)

RECURSIVE SumTicks(_)
SumTicks(n) == IF n = 0 THEN 0 ELSE watchers[n].ticks + SumTicks(n - 1)

\* exportApi.getStatus calls made so far, over all exports.
Polls == SumTicks(Len(watchers))

\* Milliseconds since setInterval was called, at the moment of a tick.
Elapsed(e) == watchers[e].ticks * PollIntervalMs

\* ------------------------------------------------------------------ actions
\* handleExport, reached through the Export button.
HandleExport ==
  /\ PageShowsProject
  /\ ~ExportButtonDisabled
  /\ creating' = creating \cup {instance}
  /\ UNCHANGED <<mounted, instance, isExporting, watchers, alerts, consoleErrors>>
  /\ UNCHANGED <<cacheVars, restVars>>

\* createExportMutation.onSuccess: the create call of instance i resolved with
\* a new exportId.
OnSuccess(i) ==
  /\ i \in creating
  /\ creating' = creating \ {i}
  /\ isExporting' = SetIsExporting(i, TRUE)
  /\ watchers' = Append(watchers, NewWatcher(i))
  /\ UNCHANGED <<mounted, instance, alerts, consoleErrors>>
  /\ UNCHANGED <<cacheVars, restVars>>

\* The create call of instance i rejected: the mutation has no onError and
\* the page renders nothing from createExportMutation.error.
CreateRejected(i) ==
  /\ i \in creating
  /\ creating' = creating \ {i}
  /\ UNCHANGED <<mounted, instance, isExporting, watchers, alerts,
                 consoleErrors>>
  /\ UNCHANGED <<cacheVars, restVars>>

\* The interval fires: the callback runs up to `await exportApi.getStatus`.
Tick(e) ==
  /\ e \in ExportIds
  /\ watchers[e].timer
  /\ watchers' = [watchers EXCEPT ![e].ticks = @ + 1, ![e].pending = @ + 1]
  /\ UNCHANGED <<mounted, instance, isExporting, creating, alerts,
                 consoleErrors>>
  /\ UNCHANGED <<cacheVars, restVars>>

\* The server (or the network) answers one getStatus request of export e.
ServerReplies(e, r) ==
  /\ e \in ExportIds
  /\ watchers[e].pending > 0
  /\ watchers' = [watchers EXCEPT ![e].pending = @ - 1,
                                  ![e].replies[r] = @ + 1]
  /\ UNCHANGED <<mounted, instance, isExporting, creating, alerts,
                 consoleErrors>>
  /\ UNCHANGED <<cacheVars, restVars>>

\* The callback resumes after `await exportApi.getStatus` with answer r. On
\* COMPLETED it calls exportApi.download, which awaits its fetch with a token
\* stored and throws before it with none: the catch then runs in the same
\* task.
PollCallback(e, r) ==
  /\ e \in ExportIds
  /\ watchers[e].replies[r] > 0
  /\ LET w == [watchers[e] EXCEPT !.replies[r] = @ - 1] IN
     CASE r = "COMPLETED" ->
            /\ watchers' = [watchers EXCEPT ![e] =
                 [ClearInterval(w) EXCEPT
                    !.downloads = @ + 1,
                    !.downloading = IF Truthy(token) THEN @ + 1 ELSE @]]
            /\ isExporting' = SetIsExporting(w.owner, FALSE)
            /\ consoleErrors' = (IF Truthy(token) THEN consoleErrors
                                 ELSE consoleErrors + 1)
            /\ UNCHANGED alerts
       [] r = "FAILED" ->
            /\ watchers' = [watchers EXCEPT ![e] = ClearInterval(w)]
            /\ isExporting' = SetIsExporting(w.owner, FALSE)
            /\ alerts' = alerts + 1
            /\ UNCHANGED consoleErrors
       [] r = "ERROR" ->
            /\ watchers' = [watchers EXCEPT ![e] = ClearInterval(w)]
            /\ isExporting' = SetIsExporting(w.owner, FALSE)
            /\ consoleErrors' = consoleErrors + 1
            /\ UNCHANGED alerts
       [] OTHER ->
            /\ watchers' = [watchers EXCEPT ![e] = w]
            /\ UNCHANGED <<isExporting, alerts, consoleErrors>>
  /\ UNCHANGED <<mounted, instance, creating>>
  /\ UNCHANGED <<cacheVars, restVars>>

\* `await exportApi.download` settles: fulfilled, or rejected into the catch.
DownloadSettles(e, ok) ==
  /\ e \in ExportIds
  /\ watchers[e].downloading > 0
  /\ IF ok
       THEN /\ watchers' = [watchers EXCEPT ![e].downloading = @ - 1]
            /\ UNCHANGED <<isExporting, consoleErrors>>
       ELSE /\ watchers' = [watchers EXCEPT ![e] =
                 ClearInterval([watchers[e] EXCEPT !.downloading = @ - 1])]
            /\ isExporting' = SetIsExporting(watchers[e].owner, FALSE)
            /\ consoleErrors' = consoleErrors + 1
  /\ UNCHANGED <<mounted, instance, creating, alerts>>
  /\ UNCHANGED <<cacheVars, restVars>>

\* --------------------------------------------------- the ['project', id] query
TaskStatuses == {"TODO", "IN_PROGRESS", "DONE"}
TaskPriorities == {"LOW", "MEDIUM", "HIGH"}

\* The project the backend holds when the page is first opened.
InitialProject ==
  [id |-> 1, name |-> "Alpha",
   tasks |-> << [id |-> 1, status |-> "TODO", priority |-> "MEDIUM"],
                [id |-> 2, status |-> "IN_PROGRESS", priority |-> "LOW"] >>]

\* The UpdateTaskData values the handlers are called with here:
\* handleStatusChange sends {status}, handleEditSave sends the edited fields.
UpdateInputs ==
  { [status |-> "DONE"], [status |-> "IN_PROGRESS"], [priority |-> "HIGH"] }

\* Those of them the page's flow is followed with: one call of
\* handleStatusChange and one of handleEditSave for each task.
CacheInputs == { [status |-> "DONE"], [priority |-> "HIGH"] }

\* { ...task, ...data }
Merge(task, data) ==
  [f \in DOMAIN task |-> IF f \in DOMAIN data THEN data[f] ELSE task[f]]

\* An updater that hands back the value it was given.
NoPatch(old, taskId, data) == old

\* An updater that merges the new fields into every task.
PatchEveryTask(old, taskId, data) ==
  IF old = Undefined
    THEN old
    ELSE [old EXCEPT !.tasks =
            [k \in DOMAIN old.tasks |-> Merge(old.tasks[k], data)]]

\* The updater handed to setQueryData in onMutate.
OptimisticPatch(old, taskId, data) ==
  IF old = Undefined
    THEN old
    ELSE [old EXCEPT !.tasks =
            [k \in DOMAIN old.tasks |->
               IF old.tasks[k].id = taskId
                 THEN Merge(old.tasks[k], data)
                 ELSE old.tasks[k]]]

\* What PATCH /tasks/:id does to the backend's project.
ServerApply(project, taskId, data) == OptimisticPatch(project, taskId, data)

\* What the backend holds of a project that DELETE /projects/:id removed.
Deleted == [deleted |-> TRUE]

\* The backend has the project and its task taskId.
HasTask(project, taskId) ==
  /\ project # Deleted
  /\ \E k \in DOMAIN project.tasks : project.tasks[k].id = taskId

\* What GET /projects answers when the backend holds `project` and has
\* created `made` since: the open project with its task count, then the
\* projects created since and not deleted.
GetAllOf(project, made) ==
  LET all == [k \in 1..Len(made) |->
                [id |-> InitialProject.id + k, name |-> made[k].name,
                 deleted |-> made[k].deleted]]
      kept == SelectSeq(all, LAMBDA p : ~p.deleted)
  IN (IF project = Deleted
        THEN <<>>
        ELSE << [id |-> project.id, name |-> project.name,
                 taskCount |-> Len(project.tasks)] >>)
       \o [k \in 1..Len(kept) |->
             [id |-> kept[k].id, name |-> kept[k].name, taskCount |-> 0]]

\* What the request in flight may be answered with once the backend holds
\* `value`: the backend reads its data at some moment between the sending of
\* the request and the delivery of the response.
Heard(held, inFlight, value) == IF inFlight THEN held \cup {value} ELSE held

\* An onMutate that returns a context without the snapshot.
NoSnapshot(current) == [previousProject |-> Undefined]

\* The context onMutate returns: { previousProject }.
Snapshot(current) == [previousProject |-> current]

\* The state of the ['project', id] query that a fetch keeps as
\* #revertState when it starts.
QueryState(data, invalidated, error, dataAge, origin) ==
  [data |-> data, isInvalidated |-> invalidated, error |-> error,
   age |-> dataAge, cachedAs |-> origin]

\* A run of updateTaskMutation whose onMutate is suspended at its await.
Suspended == \E m \in DOMAIN mutations : mutations[m].status = "onMutate"

\* updateTaskMutation.mutate: onMutate runs up to `await cancelQueries`, which
\* has been called and has changed nothing yet.
UpdateTaskMutate(taskId, data) ==
  /\ mutations' = Append(mutations,
       [taskId |-> taskId, data |-> data, status |-> "onMutate",
        context |-> Null, origin |-> Null])
  /\ UNCHANGED <<server, cacheData, isInvalidated, fetching, queryError, age,
                 idle, sentAs, failureCount, answers, revertState, cachedAs>>
  /\ UNCHANGED <<pageVars, exportVars, restVars>>

\* handleStatusChange / handleEditSave: updateTaskMutation.mutate, called from
\* a task the page renders.
OnMutate(taskId, data) ==
  /\ PageShowsProject
  /\ \E k \in DOMAIN cacheData.tasks : cacheData.tasks[k].id = taskId
  /\ UpdateTaskMutate(taskId, data)

\* What cancelQueries({ queryKey: ['project', id] }) leaves of the query: a
\* fetch in flight is cancelled with revert, which puts the query back to the
\* state that fetch found when it started.
CancelQueries ==
  IF fetching
    THEN revertState
    ELSE QueryState(cacheData, isInvalidated, queryError, age, cachedAs)

\* onMutate of run m resumes after `await cancelQueries`: a fetch in flight
\* has been cancelled and the query put back to what that fetch found when it
\* started; then the snapshot, the setQueryData (which writes nothing when its
\* updater returns undefined), and the call of taskApi.update. Suspended runs
\* resume in the order of their calls. `origin` keeps, beside the context, the
\* token of the call whose answer the snapshot is.
OnMutateResumes(m) ==
  /\ m \in DOMAIN mutations
  /\ mutations[m].status = "onMutate"
  /\ \A n \in 1..(m - 1) : mutations[n].status # "onMutate"
  /\ LET found == CancelQueries
         patched == OptimisticPatch(found.data, mutations[m].taskId,
                                    mutations[m].data)
         written == patched # Undefined
     IN /\ fetching' = FALSE
        /\ sentAs' = Null
        /\ failureCount' = 0
        /\ answers' = {}
        /\ revertState' = Null
        /\ cacheData' = patched
        /\ mutations' = [mutations EXCEPT ![m].status = "pending",
                                          ![m].context = Snapshot(found.data),
                                          ![m].origin = found.cachedAs]
        /\ isInvalidated' = (IF written THEN FALSE ELSE found.isInvalidated)
        /\ queryError' = (IF written THEN FALSE ELSE found.error)
        /\ age' = (IF written THEN 0 ELSE found.age)
        /\ cachedAs' = found.cachedAs
  /\ UNCHANGED <<server, idle>>
  /\ UNCHANGED <<pageVars, exportVars, restVars>>

\* An onSettled that leaves the query as it is.
InvalidateNothing(error) ==
  /\ isInvalidated' = isInvalidated
  /\ fetching' = fetching
  /\ sentAs' = sentAs
  /\ failureCount' = failureCount
  /\ answers' = answers
  /\ revertState' = revertState
  /\ queryError' = error

\* queryClient.invalidateQueries({ queryKey: ['project', id] }), called with
\* the query's error at `error` and after the caller's writes, the backend's
\* included: the query is
\* marked invalidated and, while a page observes it, fetched again. A fetch in
\* flight is then cancelled and replaced when the query has data and reused
\* when it has none; a fetch that starts without data clears the error.
InvalidateQueries(error) ==
  LET starts == mounted /\ ~(fetching /\ cacheData' = Undefined) IN
  /\ isInvalidated' = TRUE
  /\ fetching' = (mounted \/ fetching)
  /\ sentAs' = (IF starts THEN token ELSE sentAs)
  /\ failureCount' = (IF starts THEN 0 ELSE failureCount)
  /\ answers' = (IF starts THEN {server'} ELSE Heard(answers, fetching, server'))
  /\ revertState' = (IF starts
                       THEN QueryState(cacheData', TRUE, error, age', cachedAs')
                       ELSE revertState)
  /\ queryError' = (IF starts /\ cacheData' = Undefined THEN FALSE ELSE error)

\* taskApi.update of run m resolved: the backend had the task and applied
\* the patch; onSettled.
UpdateResolved(m) ==
  /\ m \in DOMAIN mutations
  /\ mutations[m].status = "pending"
  /\ HasTask(server, mutations[m].taskId)
  /\ server' = ServerApply(server, mutations[m].taskId, mutations[m].data)
  /\ mutations' = [mutations EXCEPT ![m].status = "success"]
  /\ UNCHANGED <<cacheData, age, idle, cachedAs>>
  /\ InvalidateQueries(queryError)
  /\ UNCHANGED <<pageVars, exportVars, restVars>>

\* The value onError leaves in the cache for context c.
Rollback(c, current) ==
  IF c.previousProject # Undefined THEN c.previousProject ELSE current

\* taskApi.update of run m rejected: onError, which writes the snapshot back,
\* an answer to the call the snapshot's origin names; then onSettled.
UpdateRejected(m) ==
  /\ m \in DOMAIN mutations
  /\ mutations[m].status = "pending"
  /\ mutations' = [mutations EXCEPT ![m].status = "error"]
  /\ cacheData' = Rollback(mutations[m].context, cacheData)
  /\ age' = IF mutations[m].context.previousProject # Undefined THEN 0 ELSE age
  /\ cachedAs' = IF mutations[m].context.previousProject # Undefined
                   THEN mutations[m].origin ELSE cachedAs
  /\ UNCHANGED <<server, idle>>
  /\ InvalidateQueries(IF mutations[m].context.previousProject # Undefined
                         THEN FALSE ELSE queryError)
  /\ UNCHANGED <<pageVars, exportVars, restVars>>

\* The Retryer of the fetch in flight retries a failed request: it has seen
\* fewer than `retry` failures, and its retries are not cancelled, which
\* removing the last observer does (the queryFn does not read the abort
\* signal) and joining the fetch from a new observer undoes.
ShouldRetry(failures, observed) == failures < Retry /\ observed

\* A request of the fetch in flight was rejected and is retried: after
\* retryDelay the Retryer calls projectApi.getById again, and apiRequest reads
\* the token stored then. The query's state stays as it is: no error is set
\* and the fetch stays in flight. The step is taken at the second call; the
\* delay before it is shorter than any step of the clock and is not counted
\* in the ages.
FetchRetries ==
  /\ fetching
  /\ ShouldRetry(failureCount, mounted)
  /\ failureCount' = failureCount + 1
  /\ sentAs' = token
  /\ answers' = {server}
  /\ UNCHANGED <<server, cacheData, isInvalidated, fetching, queryError,
                 mutations, age, idle, revertState, cachedAs>>
  /\ UNCHANGED <<pageVars, exportVars, restVars>>

\* projectApi.getById resolved with the project the backend answered the
\* request in flight with, the first or a retry.
FetchResolved ==
  /\ fetching
  /\ \E project \in answers :
       /\ project # Deleted
       /\ cacheData' = project
  /\ isInvalidated' = FALSE
  /\ queryError' = FALSE
  /\ fetching' = FALSE
  /\ sentAs' = Null
  /\ failureCount' = 0
  /\ answers' = {}
  /\ revertState' = Null
  /\ age' = 0
  /\ idle' = 0
  /\ cachedAs' = sentAs
  /\ UNCHANGED <<server, mutations>>
  /\ UNCHANGED <<pageVars, exportVars, restVars>>

\* The request in flight was rejected and is not retried: the fetch fails,
\* the query's error is set and the data stays.
FetchRejected ==
  /\ fetching
  /\ ~ShouldRetry(failureCount, mounted)
  /\ queryError' = TRUE
  /\ fetching' = FALSE
  /\ sentAs' = Null
  /\ failureCount' = 0
  /\ answers' = {}
  /\ revertState' = Null
  /\ idle' = 0
  /\ UNCHANGED <<server, cacheData, isInvalidated, mutations, age, cachedAs>>
  /\ UNCHANGED <<pageVars, exportVars, restVars>>

\* ------------------------------------------------------------ page lifecycle
\* The user leaves the page, here back to the login page: the component has no
\* effect cleanup, so nothing but its own state goes away.
Unmount ==
  /\ mounted
  /\ mounted' = FALSE
  /\ isExporting' = FALSE
  /\ idle' = 0
  /\ UNCHANGED <<instance, creating, watchers, alerts, consoleErrors>>
  /\ requested' = "/login"
  /\ location' = "/login"
  /\ UNCHANGED <<server, cacheData, isInvalidated, fetching, queryError,
                 mutations, age, sentAs, failureCount, answers, revertState, cachedAs>>
  /\ UNCHANGED <<taskVars, listVars, gatewayVars, user>>

\* The router renders the page behind ProtectedRoute, which lets it through
\* with a token stored: a new instance with useState(false), whose
\* useQuery fetches when it has no data or the data is stale (older than
\* staleTime, or invalidated). A fetch that starts without data clears the
\* query's error; one that starts with data leaves it.
Mount(stale) ==
  /\ ~mounted
  /\ ~dashboard
  /\ Resolve("/projects/:id", token) = "/projects/:id"
  /\ requested' = "/projects/:id"
  /\ location' = "/projects/:id"
  /\ mounted' = TRUE
  /\ instance' = instance + 1
  /\ isExporting' = FALSE
  /\ fetching' = (fetching \/ cacheData = Undefined \/ isInvalidated \/ stale)
  /\ sentAs' = (IF fetching THEN sentAs ELSE IF fetching' THEN token ELSE Null)
  /\ failureCount' = (IF fetching THEN failureCount ELSE 0)
  /\ answers' = (IF fetching THEN answers
                 ELSE IF fetching' THEN {server} ELSE {})
  /\ revertState' = (IF fetching THEN revertState
                     ELSE IF fetching'
                       THEN QueryState(cacheData, isInvalidated, queryError,
                                       age, cachedAs)
                       ELSE Null)
  /\ queryError' = (queryError /\ cacheData # Undefined)
  /\ idle' = 0
  /\ UNCHANGED <<creating, watchers, alerts, consoleErrors>>
  /\ UNCHANGED <<server, cacheData, isInvalidated, mutations, age, cachedAs>>
  /\ UNCHANGED <<taskVars, listVars, gatewayVars, user>>

\* ------------------------------------------------------- creating a task
\* The priority the new-task form is submitted with here.
NewTaskInputs == {"HIGH"}

\* handleCreateTask: createTaskMutation.mutate; the submit button is disabled
\* while the instance's mutation is pending.
HandleCreateTask(priority) ==
  /\ PageShowsProject
  /\ \A c \in taskCreates : c.owner # instance
  /\ taskCreates' = taskCreates \cup {[owner |-> instance, priority |-> priority]}
  /\ UNCHANGED <<taskDeletes, lastTaskId>>
  /\ UNCHANGED <<pageVars, exportVars, cacheVars, listVars, gatewayVars, sessionVars>>

\* What POST /projects/:id/tasks does to the backend's project: the new task
\* gets an id the backend has not handed out before.
ServerAddTask(project, id, priority) ==
  [project EXCEPT !.tasks =
     Append(@, [id |-> id, status |-> "TODO", priority |-> priority])]

\* taskApi.create of call c resolved: createTaskMutation.onSuccess.
TaskCreateResolved(c) ==
  /\ c \in taskCreates
  /\ server # Deleted
  /\ taskCreates' = taskCreates \ {c}
  /\ lastTaskId' = lastTaskId + 1
  /\ server' = ServerAddTask(server, lastTaskId + 1, c.priority)
  /\ UNCHANGED taskDeletes
  /\ UNCHANGED <<cacheData, mutations, age, idle, cachedAs>>
  /\ InvalidateQueries(queryError)
  /\ listAnswers' = Heard(listAnswers, listFetching, GetAllOf(server', created))
  /\ UNCHANGED <<pageVars, exportVars, dashVars, gatewayVars, sessionVars>>

\* taskApi.create of call c rejected: the mutation has no onError.
TaskCreateRejected(c) ==
  /\ c \in taskCreates
  /\ taskCreates' = taskCreates \ {c}
  /\ UNCHANGED <<taskDeletes, lastTaskId>>
  /\ UNCHANGED <<pageVars, exportVars, cacheVars, listVars, gatewayVars, sessionVars>>

\* ------------------------------------------------------- deleting a task
\* The sequence without its i-th element.
Without(seq, i) == SubSeq(seq, 1, i - 1) \o SubSeq(seq, i + 1, Len(seq))

\* What DELETE /tasks/:id does to the backend's project.
ServerDeleteTask(project, taskId) ==
  [project EXCEPT !.tasks = SelectSeq(@, LAMBDA t : t.id # taskId)]

\* handleDeleteTask, from the Delete button of a task the page renders:
\* window.confirm, and deleteTaskMutation.mutate(taskId) when it is
\* confirmed. The button stays enabled while a call is pending.
HandleDeleteTask(taskId, confirmed) ==
  /\ PageShowsProject
  /\ \E k \in DOMAIN cacheData.tasks : cacheData.tasks[k].id = taskId
  /\ taskDeletes' = (IF confirmed THEN Append(taskDeletes, taskId)
                      ELSE taskDeletes)
  /\ UNCHANGED <<taskCreates, lastTaskId>>
  /\ UNCHANGED <<pageVars, exportVars, cacheVars, listVars, gatewayVars, sessionVars>>

\* taskApi.delete of the i-th pending call resolved: the backend had the task
\* and removed it; deleteTaskMutation.onSuccess.
TaskDeleteResolved(i) ==
  /\ i \in DOMAIN taskDeletes
  /\ HasTask(server, taskDeletes[i])
  /\ taskDeletes' = Without(taskDeletes, i)
  /\ server' = ServerDeleteTask(server, taskDeletes[i])
  /\ UNCHANGED <<taskCreates, lastTaskId>>
  /\ UNCHANGED <<cacheData, mutations, age, idle, cachedAs>>
  /\ InvalidateQueries(queryError)
  /\ listAnswers' = Heard(listAnswers, listFetching, GetAllOf(server', created))
  /\ UNCHANGED <<pageVars, exportVars, dashVars, gatewayVars, sessionVars>>

\* taskApi.delete of the i-th pending call rejected: the mutation has no
\* onError.
TaskDeleteRejected(i) ==
  /\ i \in DOMAIN taskDeletes
  /\ taskDeletes' = Without(taskDeletes, i)
  /\ UNCHANGED <<taskCreates, lastTaskId>>
  /\ UNCHANGED <<pageVars, exportVars, cacheVars, listVars, gatewayVars, sessionVars>>

\* ------------------------------------------------ the ['projects'] query
\* What GET /projects answers now.
GetAll == GetAllOf(server, created)

\* The backend has project id.
HasProject(id) ==
  IF id = InitialProject.id
    THEN server # Deleted
    ELSE /\ id - InitialProject.id \in DOMAIN created
         /\ ~created[id - InitialProject.id].deleted

\* The names the new-project form is submitted with here.
ProjectNames == {"Beta", "Gamma"}

\* The dashboard renders the project grid: `projects` is defined.
DashboardShowsList == dashboard /\ listData # Undefined

\* The dashboard renders its error banner: {error && (...)}.
DashboardShowsError == dashboard /\ listError

\* The router is asked for `path` and settles on /dashboard, which
\* ProtectedRoute lets through with a token stored: the dashboard's useQuery
\* fetches when it has no data or the data is stale (older than staleTime, or
\* invalidated).
OpenDashboard(path, stale) ==
  /\ ~dashboard
  /\ ~mounted
  /\ Resolve(path, token) = "/dashboard"
  /\ requested' = path
  /\ location' = "/dashboard"
  /\ dashboard' = TRUE
  /\ dashInstance' = dashInstance + 1
  /\ listFetching' = (listFetching \/ listData = Undefined \/ listInvalidated
                        \/ stale)
  /\ listSentAs' = (IF listFetching THEN listSentAs
                    ELSE IF listFetching' THEN token ELSE Null)
  /\ listFailureCount' = (IF listFetching THEN listFailureCount ELSE 0)
  /\ listAnswers' = (IF listFetching THEN listAnswers
                     ELSE IF listFetching' THEN {GetAll} ELSE {})
  /\ listError' = (listError /\ listData # Undefined)
  /\ listIdle' = 0
  /\ UNCHANGED <<projectCreates, projectEdits, created, listData, listInvalidated, listAge,
                 listCachedAs>>
  /\ UNCHANGED <<pageVars, exportVars, cacheVars, taskVars, gatewayVars, user>>

\* The user opens the dashboard by its own path.
MountDashboard(stale) == OpenDashboard("/dashboard", stale)

\* The user leaves the dashboard, here back to the login page.
UnmountDashboard ==
  /\ dashboard
  /\ dashboard' = FALSE
  /\ listIdle' = 0
  /\ requested' = "/login"
  /\ location' = "/login"
  /\ UNCHANGED <<dashInstance, projectCreates, projectEdits, created, listData,
                 listInvalidated, listFetching, listError, listAge,
                 listSentAs, listFailureCount, listAnswers, listCachedAs>>
  /\ UNCHANGED <<pageVars, exportVars, cacheVars, taskVars, gatewayVars, user>>

\* A logout that removes the token and leaves the 'user' item.
UserKept(stored) == [token |-> Null, user |-> stored.user]

\* localStorage.removeItem('token'); localStorage.removeItem('user').
RemoveSession(stored) == [token |-> Null, user |-> Null]

\* handleLogout, from the dashboard's Logout button: both items are removed
\* and the router is sent to /login, which unmounts the dashboard. The query
\* client is left as it is.
HandleLogout ==
  /\ dashboard
  /\ token' = RemoveSession([token |-> token, user |-> user]).token
  /\ user' = RemoveSession([token |-> token, user |-> user]).user
  /\ requested' = "/login"
  /\ location' = "/login"
  /\ dashboard' = FALSE
  /\ listIdle' = 0
  /\ UNCHANGED <<dashInstance, projectCreates, projectEdits, created, listData,
                 listInvalidated, listFetching, listError, listAge,
                 listSentAs, listFailureCount, listAnswers, listCachedAs>>
  /\ UNCHANGED <<pageVars, exportVars, cacheVars, taskVars, calls>>

\* With no page on screen the router is asked for `path` and settles on a
\* route outside ProtectedRoute: the path itself, or /login by redirect.
Visit(path) ==
  /\ ~mounted
  /\ ~dashboard
  /\ Resolve(path, token) \notin ProtectedPaths
  /\ requested' = path
  /\ location' = Resolve(path, token)
  /\ UNCHANGED <<pageVars, exportVars, cacheVars, taskVars, listVars,
                 gatewayVars, user>>

\* The { user, token } answers of POST /auth/login for the two accounts here.
Accounts ==
  { [token |-> [value |-> "jwt-a"], user |-> [id |-> "u-a"]],
    [token |-> [value |-> "jwt-b"], user |-> [id |-> "u-b"]] }

\* The 'user' item stored along with a 'token' item.
UserOf(item) ==
  IF item = Null
    THEN Null
    ELSE (CHOOSE a \in Accounts : a.token = item).user

\* With no session stored, the login (or register) form succeeds with
\* account a: the session { token, user } is created in the store.
Login(a) ==
  /\ location \in {"/login", "/register"}
  /\ token = Null
  /\ token' = a.token
  /\ user' = a.user
  /\ UNCHANGED <<pageVars, exportVars, cacheVars, taskVars, listVars,
                 calls, requested, location>>

\* A request of the ['projects'] fetch in flight was rejected and is retried:
\* after retryDelay the Retryer calls projectApi.getAll again, and apiRequest
\* reads the token stored then.
ListFetchRetries ==
  /\ listFetching
  /\ ShouldRetry(listFailureCount, dashboard)
  /\ listFailureCount' = listFailureCount + 1
  /\ listSentAs' = token
  /\ listAnswers' = {GetAll}
  /\ UNCHANGED <<dashboard, dashInstance, projectCreates, projectEdits, created,
                 listData, listInvalidated, listFetching, listError, listAge,
                 listIdle, listCachedAs>>
  /\ UNCHANGED <<pageVars, exportVars, cacheVars, taskVars, gatewayVars, sessionVars>>

\* projectApi.getAll resolved with the list the backend answered the request
\* in flight with, the first or a retry.
ListFetchResolved ==
  /\ listFetching
  /\ \E list \in listAnswers : listData' = [projects |-> list]
  /\ listInvalidated' = FALSE
  /\ listError' = FALSE
  /\ listFetching' = FALSE
  /\ listSentAs' = Null
  /\ listFailureCount' = 0
  /\ listAnswers' = {}
  /\ listAge' = 0
  /\ listIdle' = 0
  /\ listCachedAs' = listSentAs
  /\ UNCHANGED <<dashboard, dashInstance, projectCreates, projectEdits, created>>
  /\ UNCHANGED <<pageVars, exportVars, cacheVars, taskVars, gatewayVars, sessionVars>>

\* The request in flight was rejected and is not retried: the fetch fails,
\* the query's error is set and the data stays.
ListFetchRejected ==
  /\ listFetching
  /\ ~ShouldRetry(listFailureCount, dashboard)
  /\ listError' = TRUE
  /\ listFetching' = FALSE
  /\ listSentAs' = Null
  /\ listFailureCount' = 0
  /\ listAnswers' = {}
  /\ listIdle' = 0
  /\ UNCHANGED <<dashboard, dashInstance, projectCreates, projectEdits, created, listData,
                 listInvalidated, listAge, listCachedAs>>
  /\ UNCHANGED <<pageVars, exportVars, cacheVars, taskVars, gatewayVars, sessionVars>>

\* handleCreateProject: createProjectMutation.mutate; the submit button is
\* disabled while the instance's mutation is pending.
HandleCreateProject(name) ==
  /\ dashboard
  /\ \A c \in projectCreates : c.owner # dashInstance
  /\ projectCreates' = projectCreates \cup {[owner |-> dashInstance, name |-> name]}
  /\ UNCHANGED <<dashboard, dashInstance, projectEdits, created, listData, listInvalidated,
                 listFetching, listError, listAge, listIdle, listSentAs, listFailureCount, listAnswers,
                 listCachedAs>>
  /\ UNCHANGED <<pageVars, exportVars, cacheVars, taskVars, gatewayVars, sessionVars>>

\* queryClient.invalidateQueries({ queryKey: ['projects'] }), called after the
\* backend's write: the query is
\* marked invalidated and, while a dashboard observes it, fetched again: a
\* fetch in flight is replaced when the query has data and joined when it has
\* none, and a fetch that starts without data clears the error.
InvalidateProjects ==
  LET starts == dashboard /\ ~(listFetching /\ listData = Undefined) IN
  /\ listInvalidated' = TRUE
  /\ listFetching' = (dashboard \/ listFetching)
  /\ listSentAs' = (IF starts THEN token ELSE listSentAs)
  /\ listFailureCount' = (IF starts THEN 0 ELSE listFailureCount)
  /\ listAnswers' = (IF starts THEN {GetAllOf(server', created')}
                     ELSE Heard(listAnswers, listFetching,
                                GetAllOf(server', created')))
  /\ listError' = (IF starts /\ listData = Undefined THEN FALSE ELSE listError)

\* projectApi.create of call c resolved: createProjectMutation.onSuccess.
CreateProjectResolved(c) ==
  /\ c \in projectCreates
  /\ projectCreates' = projectCreates \ {c}
  /\ created' = Append(created, [name |-> c.name, deleted |-> FALSE])
  /\ UNCHANGED <<pageVars, exportVars, cacheVars, taskVars, gatewayVars, sessionVars>>
  /\ InvalidateProjects
  /\ UNCHANGED <<dashboard, dashInstance, projectEdits, listData, listAge,
                 listIdle, listCachedAs>>

\* projectApi.create of call c rejected: the form shows the error.
CreateProjectRejected(c) ==
  /\ c \in projectCreates
  /\ projectCreates' = projectCreates \ {c}
  /\ UNCHANGED <<dashboard, dashInstance, projectEdits, created, listData, listInvalidated,
                 listFetching, listError, listAge, listIdle, listSentAs, listFailureCount, listAnswers,
                 listCachedAs>>
  /\ UNCHANGED <<pageVars, exportVars, cacheVars, taskVars, gatewayVars, sessionVars>>

\* ------------------------------------------- renaming, deleting a project
\* The names the edit form of a project card is submitted with here.
EditNames == {"Delta"}

\* The dashboard renders a card for project id.
DashboardShowsProject(id) ==
  /\ DashboardShowsList
  /\ \E j \in DOMAIN listData.projects : listData.projects[j].id = id

\* The ['project', id] query and the task updates, which the dashboard's
\* mutations leave alone.
detailVars == <<cacheData, isInvalidated, fetching, queryError, mutations, age,
                idle, sentAs, failureCount, revertState, cachedAs>>

\* handleEditSave, from the edit form of a card: updateProjectMutation.mutate;
\* the Save button is disabled while the instance's mutation is pending.
HandleEditSave(projectId, name) ==
  /\ DashboardShowsProject(projectId)
  /\ \A u \in projectUpdates : u.owner # dashInstance
  /\ projectUpdates' = projectUpdates
       \cup {[owner |-> dashInstance, id |-> projectId, name |-> name]}
  /\ UNCHANGED <<dashboard, dashInstance, projectCreates, projectDeletes,
                 created, listData, listInvalidated, listFetching, listError,
                 listAge, listIdle, listSentAs, listFailureCount, listAnswers, listCachedAs>>
  /\ UNCHANGED <<pageVars, exportVars, cacheVars, taskVars, gatewayVars, sessionVars>>

\* What PATCH /projects/:id does to the backend's projects.
ServerRename(projects, id, name) ==
  [projects EXCEPT ![id - InitialProject.id].name = name]

\* projectApi.update of call u resolved: the backend had the project and
\* renamed it; updateProjectMutation.onSuccess.
UpdateProjectResolved(u) ==
  /\ u \in projectUpdates
  /\ HasProject(u.id)
  /\ projectUpdates' = projectUpdates \ {u}
  /\ server' = (IF u.id = InitialProject.id
                  THEN [server EXCEPT !.name = u.name] ELSE server)
  /\ created' = (IF u.id = InitialProject.id
                   THEN created ELSE ServerRename(created, u.id, u.name))
  /\ InvalidateProjects
  /\ answers' = Heard(answers, fetching, server')
  /\ UNCHANGED <<dashboard, dashInstance, projectCreates, projectDeletes,
                 listData, listAge, listIdle, listCachedAs>>
  /\ UNCHANGED <<pageVars, exportVars, detailVars, taskVars, gatewayVars, sessionVars>>

\* projectApi.update of call u rejected: the mutation has no onError.
UpdateProjectRejected(u) ==
  /\ u \in projectUpdates
  /\ projectUpdates' = projectUpdates \ {u}
  /\ UNCHANGED <<dashboard, dashInstance, projectCreates, projectDeletes,
                 created, listData, listInvalidated, listFetching, listError,
                 listAge, listIdle, listSentAs, listFailureCount, listAnswers, listCachedAs>>
  /\ UNCHANGED <<pageVars, exportVars, cacheVars, taskVars, gatewayVars, sessionVars>>

\* handleDeleteProject, from the Delete button of a card: window.confirm, and
\* deleteProjectMutation.mutate(projectId) when it is confirmed. The button
\* stays enabled while a call is pending.
HandleDeleteProject(projectId, confirmed) ==
  /\ DashboardShowsProject(projectId)
  /\ projectDeletes' = (IF confirmed THEN Append(projectDeletes, projectId)
                         ELSE projectDeletes)
  /\ UNCHANGED <<dashboard, dashInstance, projectCreates, projectUpdates,
                 created, listData, listInvalidated, listFetching, listError,
                 listAge, listIdle, listSentAs, listFailureCount, listAnswers, listCachedAs>>
  /\ UNCHANGED <<pageVars, exportVars, cacheVars, taskVars, gatewayVars, sessionVars>>

\* What DELETE /projects/:id does to the backend's projects.
ServerDeleteProject(projects, id) ==
  [projects EXCEPT ![id - InitialProject.id].deleted = TRUE]

\* projectApi.delete of the i-th pending call resolved: the backend had the
\* project and removed it, its tasks included; deleteProjectMutation.onSuccess.
DeleteProjectResolved(i) ==
  /\ i \in DOMAIN projectDeletes
  /\ HasProject(projectDeletes[i])
  /\ projectDeletes' = Without(projectDeletes, i)
  /\ server' = (IF projectDeletes[i] = InitialProject.id THEN Deleted ELSE server)
  /\ created' = (IF projectDeletes[i] = InitialProject.id
                   THEN created
                   ELSE ServerDeleteProject(created, projectDeletes[i]))
  /\ InvalidateProjects
  /\ answers' = Heard(answers, fetching, server')
  /\ UNCHANGED <<dashboard, dashInstance, projectCreates, projectUpdates,
                 listData, listAge, listIdle, listCachedAs>>
  /\ UNCHANGED <<pageVars, exportVars, detailVars, taskVars, gatewayVars, sessionVars>>

\* projectApi.delete of the i-th pending call rejected: the mutation has no
\* onError.
DeleteProjectRejected(i) ==
  /\ i \in DOMAIN projectDeletes
  /\ projectDeletes' = Without(projectDeletes, i)
  /\ UNCHANGED <<dashboard, dashInstance, projectCreates, projectUpdates,
                 created, listData, listInvalidated, listFetching, listError,
                 listAge, listIdle, listSentAs, listFailureCount, listAnswers, listCachedAs>>
  /\ UNCHANGED <<pageVars, exportVars, cacheVars, taskVars, gatewayVars, sessionVars>>

\* ------------------------------------------------------------------ the clock
Min(a, b) == IF a <= b THEN a ELSE b

\* The gc timer of a query counts while nothing observes the query and no
\* fetch is in flight: removeObserver and the end of a fetch both restart it.
GcTimerRuns == ~mounted /\ ~fetching /\ (cacheData # Undefined \/ queryError)

ListGcTimerRuns ==
  ~dashboard /\ ~listFetching /\ (listData # Undefined \/ listError)

\* Query.optionalRemove when the gc timer fires: the query leaves the cache,
\* and each of its fields reads as `empty` from then on.
OptionalRemove(fires, value, empty) == IF fires THEN empty ELSE value

\* d milliseconds pass; gc timers that come due fire.
Advance(d) ==
  LET gc == GcTimerRuns /\ idle + d >= GcTimeMs
      listGc == ListGcTimerRuns /\ listIdle + d >= ListGcTimeMs
  IN
  /\ cacheData' = OptionalRemove(gc, cacheData, Undefined)
  /\ isInvalidated' = OptionalRemove(gc, isInvalidated, FALSE)
  /\ queryError' = OptionalRemove(gc, queryError, FALSE)
  /\ age' = OptionalRemove(gc,
       IF cacheData # Undefined THEN Min(age + d, GcTimeMs) ELSE age, 0)
  /\ idle' = OptionalRemove(gc,
       IF GcTimerRuns THEN Min(idle + d, GcTimeMs) ELSE idle, 0)
  /\ listData' = OptionalRemove(listGc, listData, Undefined)
  /\ listInvalidated' = OptionalRemove(listGc, listInvalidated, FALSE)
  /\ listError' = OptionalRemove(listGc, listError, FALSE)
  /\ listAge' = OptionalRemove(listGc,
       IF listData # Undefined THEN Min(listAge + d, ListGcTimeMs) ELSE listAge, 0)
  /\ listIdle' = OptionalRemove(listGc,
       IF ListGcTimerRuns THEN Min(listIdle + d, ListGcTimeMs) ELSE listIdle, 0)
  /\ cachedAs' = OptionalRemove(gc, cachedAs, Null)
  /\ listCachedAs' = OptionalRemove(listGc, listCachedAs, Null)
  /\ revertState' = (IF fetching /\ revertState.data # Undefined
                       THEN [revertState EXCEPT
                               !.age = Min(@ + d, GcTimeMs)]
                       ELSE revertState)
  /\ UNCHANGED <<server, fetching, sentAs, failureCount, answers, mutations, taskVars>>
  /\ UNCHANGED <<dashboard, dashInstance, projectCreates, projectEdits, created, listFetching,
                 listSentAs, listFailureCount, listAnswers>>
  /\ UNCHANGED <<pageVars, exportVars, gatewayVars, sessionVars>>

\* ---------------------------------------------------------------- the gateway
\* `Bearer ${token}`
Bearer(item) == <<"Bearer", item.value>>

\* RequestInit.headers of a call that passes none.
NoHeaders == [h \in {} |-> ""]

\* The options.headers the callers of apiRequest pass: none of them passes any.
CallHeaders == {NoHeaders}

\* A header set that never gets the Authorization header.
WithoutAuthorization(item, optHeaders) ==
  [h \in {"Content-Type"} \cup DOMAIN optHeaders |->
     IF h \in DOMAIN optHeaders THEN optHeaders[h] ELSE "application/json"]

\* The headers apiRequest sends: Content-Type, then options.headers, then
\* Authorization when the token is truthy.
BuildHeaders(item, optHeaders) ==
  [h \in {"Content-Type"} \cup DOMAIN optHeaders
           \cup (IF Truthy(item) THEN {"Authorization"} ELSE {}) |->
     IF h = "Authorization" /\ Truthy(item) THEN Bearer(item)
     ELSE IF h \in DOMAIN optHeaders THEN optHeaders[h]
     ELSE "application/json"]

\* The headers exportApi.download sends.
DownloadHeaders(item) == [h \in {"Authorization"} |-> Bearer(item)]

\* Response bodies: text that is not JSON, the JSON value null, or a JSON
\* object: the success envelope, the error envelope whole, without a message
\* and with an empty one, and an object that is no envelope.
Bodies ==
  { [kind |-> "text"],
    [kind |-> "null"],
    [kind |-> "object", value |-> [success |-> TRUE, data |-> [rows |-> 1]]],
    [kind |-> "object",
     value |-> [success |-> FALSE,
                error |-> [code |-> "NOT_FOUND", message |-> "Project not found"]]],
    [kind |-> "object",
     value |-> [success |-> FALSE, error |-> [code |-> "INTERNAL_ERROR"]]],
    [kind |-> "object",
     value |-> [success |-> FALSE,
                error |-> [code |-> "INTERNAL_ERROR", message |-> ""]]],
    [kind |-> "object", value |-> [detail |-> "Bad Gateway"]] }

\* The responses fetch resolves with.
Responses == [status : {200, 404, 500}, body : Bodies]

\* Response.ok
IsOk(response) == response.status >= 200 /\ response.status <= 299

\* A promise that resolved with v, and one that rejected with an error object
\* of that name and message and no other property.
Returned(v) == [threw |-> FALSE, value |-> v]
Thrown(name, message) == [threw |-> TRUE, error |-> [name |-> name, message |-> message]]

\* data.error?.message || generic, for a JSON object data.
ErrorMessage(data, generic) ==
  IF /\ "error" \in DOMAIN data
     /\ "message" \in DOMAIN data.error
     /\ data.error.message # ""
    THEN data.error.message
    ELSE generic

\* How apiRequest ends once fetch has resolved with the response.
ApiResult(optHeaders, response) ==
  IF "Accept" \in DOMAIN optHeaders /\ optHeaders["Accept"] = "application/octet-stream"
    THEN Returned([blob |-> response.body])
  ELSE IF response.body.kind = "text"
    THEN Thrown("SyntaxError", "Unexpected token")
  ELSE IF response.body.kind = "null"
    THEN Thrown("TypeError", "Cannot read properties of null")
  ELSE IF ~IsOk(response)
    THEN Thrown("Error", ErrorMessage(response.body.value, "Request failed"))
  ELSE Returned(IF "data" \in DOMAIN response.body.value
                  THEN response.body.value.data
                  ELSE Undefined)

\* A download that takes every response for a file.
DownloadUnchecked(response) == Returned(Undefined)

\* How exportApi.download ends once fetch has resolved with the response.
DownloadResult(response) ==
  IF IsOk(response)
    THEN Returned(Undefined)
  ELSE IF response.body.kind = "text"
    THEN Thrown("SyntaxError", "Unexpected token")
  ELSE IF response.body.kind = "null"
    THEN Thrown("TypeError", "Cannot read properties of null")
  ELSE Thrown("Error", ErrorMessage(response.body.value, "Download failed"))

\* The blob is handed to the browser (a.click()) when nothing threw before.
SavesFile(result) == ~result.threw

\* The calls followed at once: each slot holds one call, from the moment it is
\* made until the slot is taken by a later call.
CallSlots == {"first", "second"}

\* Slot c holds no call that is still awaiting.
Free(c) == IF calls[c] = Null THEN TRUE ELSE calls[c].phase = "done"

\* apiRequest up to `await fetch(...)`: the token is read and the headers are
\* built, and the request is sent.
ApiRequest(c, optHeaders) ==
  /\ Free(c)
  /\ calls' = [calls EXCEPT ![c] =
       [fn |-> "apiRequest",
        sent |-> TRUE,
        optHeaders |-> optHeaders,
        headers |-> BuildHeaders(token, optHeaders),
        phase |-> "fetch"]]
  /\ UNCHANGED token
  /\ UNCHANGED <<pageVars, exportVars, cacheVars, taskVars, listVars, sessionVars>>

\* exportApi.download up to `await fetch(...)`: without a token it throws
\* before fetch, with one the request is sent.
Download(c) ==
  /\ Free(c)
  /\ calls' = [calls EXCEPT ![c] =
       IF Truthy(token)
         THEN [fn |-> "download",
               sent |-> TRUE,
               headers |-> DownloadHeaders(token),
               phase |-> "fetch"]
         ELSE [fn |-> "download",
               sent |-> FALSE,
               phase |-> "done",
               outcome |-> Thrown("Error", "Not authenticated"),
               saved |-> FALSE]]
  /\ UNCHANGED token
  /\ UNCHANGED <<pageVars, exportVars, cacheVars, taskVars, listVars, sessionVars>>

\* fetch of the call in slot c resolves with the response: the call goes on
\* to await the body, response.json() or response.blob().
FetchReturns(c, response) ==
  /\ calls[c] # Null
  /\ calls[c].phase = "fetch"
  /\ calls' = [calls EXCEPT ![c] =
       [f \in DOMAIN calls[c] \cup {"response"} |->
          IF f = "response" THEN response
          ELSE IF f = "phase" THEN "body"
          ELSE calls[c][f]]]
  /\ UNCHANGED token
  /\ UNCHANGED <<pageVars, exportVars, cacheVars, taskVars, listVars, sessionVars>>

\* The body of the response has been read: apiRequest returns or throws.
ApiRequestReturns(c) ==
  /\ calls[c] # Null
  /\ calls[c].fn = "apiRequest"
  /\ calls[c].phase = "body"
  /\ calls' = [calls EXCEPT ![c] =
       [fn |-> "apiRequest",
        sent |-> TRUE,
        headers |-> calls[c].headers,
        phase |-> "done",
        outcome |-> ApiResult(calls[c].optHeaders, calls[c].response)]]
  /\ UNCHANGED token
  /\ UNCHANGED <<pageVars, exportVars, cacheVars, taskVars, listVars, sessionVars>>

\* The body of the response has been read: exportApi.download throws, or
\* hands the blob to the browser and returns.
DownloadReturns(c) ==
  /\ calls[c] # Null
  /\ calls[c].fn = "download"
  /\ calls[c].phase = "body"
  /\ calls' = [calls EXCEPT ![c] =
       [fn |-> "download",
        sent |-> TRUE,
        headers |-> calls[c].headers,
        phase |-> "done",
        outcome |-> DownloadResult(calls[c].response),
        saved |-> SavesFile(DownloadResult(calls[c].response))]]
  /\ UNCHANGED token
  /\ UNCHANGED <<pageVars, exportVars, cacheVars, taskVars, listVars, sessionVars>>

\* ------------------------------------------------------------ specifications
\* The project page has just been opened for the first time.
PagesInit ==
  /\ mounted = TRUE
  /\ instance = 1
  /\ isExporting = FALSE
  /\ creating = {}
  /\ watchers = <<>>
  /\ alerts = 0
  /\ consoleErrors = 0
  /\ server = InitialProject
  /\ cacheData = Undefined
  /\ isInvalidated = FALSE
  /\ fetching = TRUE
  /\ queryError = FALSE
  /\ mutations = <<>>
  /\ age = 0
  /\ idle = 0
  /\ taskCreates = {}
  /\ taskDeletes = <<>>
  /\ lastTaskId = Len(InitialProject.tasks)
  /\ dashboard = FALSE
  /\ dashInstance = 0
  /\ projectCreates = {}
  /\ projectUpdates = {}
  /\ projectDeletes = <<>>
  /\ created = <<>>
  /\ listData = Undefined
  /\ listInvalidated = FALSE
  /\ listFetching = FALSE
  /\ listError = FALSE
  /\ listAge = 0
  /\ listIdle = 0
  /\ revertState = QueryState(Undefined, FALSE, FALSE, 0, Null)
  /\ cachedAs = Null
  /\ listSentAs = Null
  /\ listFailureCount = 0
  /\ listAnswers = {}
  /\ failureCount = 0
  /\ answers = {server}
  /\ listCachedAs = Null
  /\ requested = "/projects/:id"
  /\ location = "/projects/:id"

\* The page is behind ProtectedRoute: a token is stored.
Init ==
  /\ PagesInit
  /\ token = [value |-> "jwt-a"]
  /\ user = UserOf(token)
  /\ sentAs = token
  /\ calls = [c \in CallSlots |-> Null]


\* The app has just been loaded at /login: no page behind ProtectedRoute has
\* been rendered and the new QueryClient holds nothing.
AppLoaded ==
  /\ mounted = FALSE
  /\ instance = 0
  /\ isExporting = FALSE
  /\ creating = {}
  /\ watchers = <<>>
  /\ alerts = 0
  /\ consoleErrors = 0
  /\ server = InitialProject
  /\ cacheData = Undefined
  /\ isInvalidated = FALSE
  /\ fetching = FALSE
  /\ queryError = FALSE
  /\ mutations = <<>>
  /\ age = 0
  /\ idle = 0
  /\ taskCreates = {}
  /\ taskDeletes = <<>>
  /\ lastTaskId = Len(InitialProject.tasks)
  /\ dashboard = FALSE
  /\ dashInstance = 0
  /\ projectCreates = {}
  /\ projectUpdates = {}
  /\ projectDeletes = <<>>
  /\ created = <<>>
  /\ listData = Undefined
  /\ listInvalidated = FALSE
  /\ listFetching = FALSE
  /\ listError = FALSE
  /\ listAge = 0
  /\ listIdle = 0
  /\ sentAs = Null
  /\ failureCount = 0
  /\ answers = {}
  /\ revertState = Null
  /\ cachedAs = Null
  /\ listSentAs = Null
  /\ listFailureCount = 0
  /\ listAnswers = {}
  /\ listCachedAs = Null
  /\ requested = "/login"
  /\ location = "/login"
  /\ calls = [c \in CallSlots |-> Null]

\* The gateway is called with whatever the 'token' item holds.
GatewayInit ==
  /\ AppLoaded
  /\ token \in StoredItems
  /\ user = UserOf(token)

\* The app is loaded with whatever session the store holds.
RouteInit ==
  /\ AppLoaded
  /\ token \in StoredItems
  /\ user = UserOf(token)

\* The app is loaded with no session stored.
SessionInit ==
  /\ AppLoaded
  /\ token = Null
  /\ user = Null

PageNext ==
  \/ FetchRetries
  \/ FetchResolved
  \/ FetchRejected
  \/ Unmount
  \/ \E stale \in BOOLEAN : instance < MaxInstances /\ Mount(stale)

ExportNext ==
  \/ Requested < MaxExports /\ HandleExport
  \/ \E i \in creating : OnSuccess(i)
  \/ \E i \in creating : CreateRejected(i)
  \/ \E e \in ExportIds : Polls < MaxPolls /\ Tick(e)
  \/ \E e \in ExportIds, r \in ExportReplies : ServerReplies(e, r)
  \/ \E e \in ExportIds, r \in ExportReplies : PollCallback(e, r)
  \/ \E e \in ExportIds, ok \in BOOLEAN : DownloadSettles(e, ok)

\* The export flow of the page.
ExportSpec == Init /\ [][ExportNext \/ PageNext]_vars

\* The rest of a suspended onMutate is a microtask: it runs before the next
\* event, timer or response is handled, so those wait while a run is
\* suspended.
CacheNext ==
  \/ \E t \in 1..Len(InitialProject.tasks), d \in CacheInputs :
       ~Suspended /\ Len(mutations) < MaxMutations /\ OnMutate(t, d)
  \/ \E m \in DOMAIN mutations : OnMutateResumes(m)
  \/ \E m \in DOMAIN mutations : ~Suspended /\ UpdateResolved(m)
  \/ \E m \in DOMAIN mutations : ~Suspended /\ UpdateRejected(m)

\* The query and the optimistic task updates of the page.
CacheSpec == Init /\ [][CacheNext \/ (~Suspended /\ PageNext)]_vars

\* An export whose job stays PENDING or PROCESSING, followed past the budget.
TimeoutNext ==
  \/ FetchResolved
  \/ Requested < 1 /\ HandleExport
  \/ \E i \in creating : OnSuccess(i)
  \/ \E e \in ExportIds : Elapsed(e) <= TimeoutBudgetMs /\ Tick(e)
  \/ \E e \in ExportIds, r \in {"PENDING", "PROCESSING"} : ServerReplies(e, r)
  \/ \E e \in ExportIds, r \in {"PENDING", "PROCESSING"} : PollCallback(e, r)

TimeoutSpec == Init /\ [][TimeoutNext]_vars

\* The callbacks of updateTaskMutation on their own, called at any moment of
\* the query, before its first value has arrived included, and with a taskId
\* that may match no task; one task may call mutate more than once, and the
\* suspended runs then resume one after the other.
PatchNext ==
  \/ \E t \in 1..(Len(InitialProject.tasks) + 1), d \in UpdateInputs :
       Len(mutations) < MaxMutations /\ UpdateTaskMutate(t, d)
  \/ \E m \in DOMAIN mutations : OnMutateResumes(m)
  \/ \E m \in DOMAIN mutations : ~Suspended /\ UpdateResolved(m)
  \/ \E m \in DOMAIN mutations : ~Suspended /\ UpdateRejected(m)
  \/ ~Suspended /\ FetchRetries
  \/ ~Suspended /\ FetchResolved
  \/ ~Suspended /\ FetchRejected

PatchSpec == Init /\ [][PatchNext]_vars

\* The dashboard's lifecycle and its query, with the age of the data an input.
DashNext ==
  \/ \E stale \in BOOLEAN : dashInstance < MaxInstances /\ MountDashboard(stale)
  \/ UnmountDashboard
  \/ ListFetchRetries
  \/ ListFetchResolved
  \/ ListFetchRejected

\* Creating a project from the dashboard.
ProjectCreateNext ==
  \/ \E n \in ProjectNames :
       Len(created) + Cardinality(projectCreates) < MaxCreates
         /\ HandleCreateProject(n)
  \/ \E c \in projectCreates : CreateProjectResolved(c)
  \/ \E c \in projectCreates : CreateProjectRejected(c)

\* The ids of the projects the backend may hold in one behaviour.
ProjectIds == InitialProject.id .. (InitialProject.id + MaxCreates)

\* Deleting a task from the project page.
TaskDeleteNext ==
  \/ \E t \in 1..(Len(InitialProject.tasks) + MaxCreates), ok \in BOOLEAN :
       Len(taskDeletes) < MaxDeletes /\ HandleDeleteTask(t, ok)
  \/ \E i \in DOMAIN taskDeletes : TaskDeleteResolved(i)
  \/ \E i \in DOMAIN taskDeletes : TaskDeleteRejected(i)

\* Renaming a project from the dashboard.
ProjectRenameNext ==
  \/ \E p \in ProjectIds, n \in EditNames : HandleEditSave(p, n)
  \/ \E u \in projectUpdates : UpdateProjectResolved(u)
  \/ \E u \in projectUpdates : UpdateProjectRejected(u)

\* Deleting a project from the dashboard.
ProjectDeleteNext ==
  \/ \E p \in ProjectIds, ok \in BOOLEAN :
       Len(projectDeletes) < MaxDeletes /\ HandleDeleteProject(p, ok)
  \/ \E i \in DOMAIN projectDeletes : DeleteProjectResolved(i)
  \/ \E i \in DOMAIN projectDeletes : DeleteProjectRejected(i)

\* The dashboard, reached by leaving the project page, and its mutations.
DashboardSpec ==
  Init /\ [][Unmount \/ DashNext \/ ProjectCreateNext \/ ProjectDeleteNext]_vars

\* The same with the edit form of the cards in place of their Delete button.
RenameSpec ==
  Init /\ [][Unmount \/ DashNext \/ ProjectCreateNext \/ ProjectRenameNext]_vars

\* Creating a task from the project page.
TaskCreateNext ==
  \/ \E p \in NewTaskInputs :
       lastTaskId + Cardinality(taskCreates)
           < Len(InitialProject.tasks) + MaxCreates
         /\ HandleCreateTask(p)
  \/ \E c \in taskCreates : TaskCreateResolved(c)
  \/ \E c \in taskCreates : TaskCreateRejected(c)

\* Both pages, their queries and the invalidating mutations.
InvalidationSpec ==
  Init /\ [][ProjectCreateNext \/ TaskCreateNext \/ TaskDeleteNext
               \/ DashNext \/ PageNext]_vars

\* Both pages and their queries under a clock: whether data is stale is read
\* off its age, and gc timers fire when due.
ClockNext ==
  \/ FetchRetries
  \/ FetchResolved
  \/ FetchRejected
  \/ Unmount
  \/ instance < MaxInstances /\ Mount(age >= StaleTimeMs)
  \/ dashInstance < MaxInstances /\ MountDashboard(listAge >= ListStaleTimeMs)
  \/ UnmountDashboard
  \/ ListFetchRetries
  \/ ListFetchResolved
  \/ ListFetchRejected
  \/ \E d \in {StaleTimeMs, ListStaleTimeMs} : Advance(d)

ClockSpec == Init /\ [][ClockNext]_vars

\* The calls through the gateway, with every response the backend may give.
GatewayNext ==
  \/ \E c \in CallSlots, h \in CallHeaders : ApiRequest(c, h)
  \/ \E c \in CallSlots : Download(c)
  \/ \E c \in CallSlots, r \in Responses : FetchReturns(c, r)
  \/ \E c \in CallSlots : ApiRequestReturns(c)
  \/ \E c \in CallSlots : DownloadReturns(c)

\* The sessions the calls are made in: login, the dashboard, its logout.
GatewaySessionNext ==
  \/ \E a \in Accounts : Login(a)
  \/ \E stale \in BOOLEAN : dashInstance < MaxInstances /\ MountDashboard(stale)
  \/ HandleLogout

GatewaySpec == GatewayInit /\ [][GatewayNext \/ GatewaySessionNext]_vars

\* The router, the two pages behind ProtectedRoute with their queries, and
\* the dashboard's logout.
RouteNext ==
  \/ \E path \in Paths : Visit(path)
  \/ \E path \in Paths, stale \in BOOLEAN :
       dashInstance < MaxInstances /\ OpenDashboard(path, stale)
  \/ \E stale \in BOOLEAN : instance < MaxInstances /\ Mount(stale)
  \/ Unmount
  \/ UnmountDashboard
  \/ HandleLogout
  \/ FetchRetries
  \/ FetchResolved
  \/ FetchRejected
  \/ ListFetchRetries
  \/ ListFetchResolved
  \/ ListFetchRejected

RouteSpec == RouteInit /\ [][RouteNext]_vars

\* The same with logins: sessions that follow one another in one page load.
SessionSpec ==
  SessionInit /\ [][RouteNext \/ \E a \in Accounts : Login(a)]_vars

Next ==
  \/ CacheNext
  \/ ~Suspended /\ (ExportNext \/ PageNext)
  \/ ~Suspended /\ (DashNext \/ ProjectCreateNext \/ TaskCreateNext)
  \/ ~Suspended /\ (ProjectRenameNext \/ ProjectDeleteNext \/ TaskDeleteNext)
  \/ ~Suspended /\ (GatewayNext \/ GatewaySessionNext \/ RouteNext)

Spec == Init /\ [][Next]_vars

\* ------------------------------------------------------------------- claims
\* getStatus calls of export e that were issued and have not resolved: the
\* server has not answered, or the answer has not reached the callback.
Unresolved(e) ==
  watchers[e].pending + watchers[e].replies["PENDING"]
    + watchers[e].replies["PROCESSING"] + watchers[e].replies["COMPLETED"]
    + watchers[e].replies["FAILED"] + watchers[e].replies["ERROR"]

\* The callback of export e consumes an answer r in this step.
Handles(e, r) == watchers'[e].replies[r] < watchers[e].replies[r]

\* The page instance that started export e is the one on screen.
OwnerOnScreen(e) == mounted /\ watchers[e].owner = instance

\* C1: at every moment at most one status request per exportId is issued and
\* not yet resolved.
C1_OnePendingStatusRequest == \A e \in ExportIds : Unresolved(e) <= 1

\* C2: when a COMPLETED answer is handled the timer is stopped and download
\* has been called exactly once for that exportId; download is called at no
\* other moment.
C2_DownloadExactlyOnce ==
  [][\A e \in ExportIds :
       /\ Handles(e, "COMPLETED") =>
            watchers'[e].downloads = 1 /\ ~watchers'[e].timer
       /\ ~Handles(e, "COMPLETED") =>
            watchers'[e].downloads = watchers[e].downloads]_vars

\* C5: once the time since the timer was started exceeds the timeout budget
\* the timer is cancelled, with no download and no alert.
C5_PollingStopsAfterTimeout ==
  \A e \in ExportIds :
    Elapsed(e) > TimeoutBudgetMs =>
      ~watchers[e].timer /\ watchers[e].downloads = 0 /\ alerts = 0

\* C6: a watcher whose page instance is no longer on screen issues no further
\* status request and triggers no download and no alert.
C6_UnmountCancelsTimer ==
  [][\A e \in ExportIds :
       ~OwnerOnScreen(e) =>
         /\ watchers'[e].ticks = watchers[e].ticks
         /\ watchers'[e].downloads = watchers[e].downloads
         /\ watchers'[e] # watchers[e] => alerts' = alerts]_vars

\* C7: a transport error on a status poll cancels the timer, resets the
\* exporting flag and shows the failure notice a FAILED status shows.
C7_TransportErrorLikeFailed ==
  [][\A e \in ExportIds :
       Handles(e, "ERROR") =>
         /\ ~watchers'[e].timer
         /\ OwnerOnScreen(e) => ~isExporting'
         /\ alerts' = alerts + 1]_vars

\* C8: handling a FAILED answer cancels the timer, shows one alert, triggers
\* no download and sets the exporting flag of the page that started the export
\* to false.
C8_FailedStopsAndNotifies ==
  [][\A e \in ExportIds :
       Handles(e, "FAILED") =>
         /\ ~watchers'[e].timer
         /\ alerts' = alerts + 1
         /\ \A f \in ExportIds :
              /\ watchers'[f].downloads = watchers[f].downloads
              /\ watchers'[f].downloading = watchers[f].downloading
         /\ OwnerOnScreen(e) => ~isExporting']_vars

\* C8 witness: a FAILED answer was handled for an export of the page on
\* screen: alerted, timer off, nothing downloaded, button enabled.
C8_Witness ==
  \E e \in ExportIds :
    /\ OwnerOnScreen(e)
    /\ alerts = 1
    /\ watchers[e].ticks = 1
    /\ Unresolved(e) = 0
    /\ ~watchers[e].timer
    /\ watchers[e].downloads = 0
    /\ PageShowsProject
    /\ ~ExportButtonDisabled

\* C9: a rejected create call starts no timer and issues no status request,
\* its error is shown to the user, and the export button is enabled again.
C9_CreateFailureSurfaced ==
  [][\A i \in creating :
       (i \notin creating' /\ Len(watchers') = Len(watchers)) =>
         /\ watchers' = watchers
         /\ alerts' > alerts \/ "createExport" \in RenderedErrors'
         /\ (mounted /\ i = instance) => ~ExportButtonDisabled']_vars

\* Timers the page instance on screen has armed.
ArmedTimers == {e \in ExportIds : OwnerOnScreen(e) /\ watchers[e].timer}

\* The callback of export e runs on an answer or a settled download.
CallbackRuns(e) ==
  \/ \E r \in Replies : Handles(e, r)
  \/ watchers'[e].downloading < watchers[e].downloading

\* C10: at most one poll timer is armed per page, and a callback of one
\* exportId changes nothing of another exportId: not its timer, not its
\* downloads, not the exporting flag while the other is polling.
C10_ExportScopedState ==
  [][/\ Cardinality(ArmedTimers') <= 1
     /\ \A e \in ExportIds :
          CallbackRuns(e) =>
            \A f \in ExportIds \ {e} :
              /\ watchers'[f] = watchers[f]
              /\ (f \in ArmedTimers /\ isExporting) => isExporting']_vars

\* A later run of updateTaskMutation than m has already succeeded.
LaterSuccess(m) ==
  \E n \in DOMAIN mutations : n > m /\ mutations[n].status = "success"

\* The server call of run m is rejected in this step.
Rejects(m) ==
  mutations[m].status = "pending" /\ mutations'[m].status = "error"

\* C3: the rollback of a failed update restores its snapshot unless a later
\* update has succeeded since, and then leaves the cached value alone.
C3_RollbackSparesLaterSuccess ==
  [][\A m \in DOMAIN mutations :
       Rejects(m) =>
         IF LaterSuccess(m)
           THEN cacheData' = cacheData
           ELSE cacheData' = mutations[m].context.previousProject]_vars

\* No other run of updateTaskMutation is pending.
OnlyPending(m) ==
  \A n \in DOMAIN mutations : mutations[n].status = "pending" => n = m

\* C4: when the only update in flight fails, the cache holds the value it had
\* before the optimistic patch and an error is shown to the user.
C4_SingleFailureRevertsAndReports ==
  [][\A m \in DOMAIN mutations :
       (Rejects(m) /\ OnlyPending(m)) =>
         /\ cacheData' = mutations[m].context.previousProject
         /\ alerts' > alerts \/ "updateTask" \in RenderedErrors']_vars

\* The step is a call of updateTaskMutation.mutate: a run was added.
MutateCalled == Len(mutations') = Len(mutations) + 1

\* The step takes onMutate of some run from its await to its end: the
\* snapshot is taken, the patch written and the PATCH call sent.
MutateCompleted ==
  \E m \in DOMAIN mutations :
    mutations[m].status = "onMutate" /\ mutations'[m].status # "onMutate"

\* The run whose onMutate a MutateCompleted step finishes.
NewRun ==
  mutations'[CHOOSE m \in DOMAIN mutations :
               mutations[m].status = "onMutate" /\ mutations'[m].status # "onMutate"]

\* What onMutate read from the cache, the snapshot of run r.
ReadBy(r) == r.context.previousProject

\* The runs whose onMutate has taken its snapshot.
Started(ms) == {m \in DOMAIN ms : ms[m].status # "onMutate"}

\* Task t is task o with the fields of data, and o's other fields.
IsPatched(t, o, data) ==
  /\ DOMAIN t = DOMAIN o
  /\ \A f \in DOMAIN t : t[f] = (IF f \in DOMAIN data THEN data[f] ELSE o[f])

\* C11: when onMutate of a task update on a cached project has run, the
\* cache holds the project onMutate read with the targeted task carrying the
\* new fields and everything else as read, while the PATCH call is pending
\* and the backend has not changed: the patch precedes the server call. The
\* call of mutate itself changes neither the cache nor the backend.
C11_PatchedBeforeServerCall ==
  [][/\ MutateCalled => cacheData' = cacheData /\ server' = server
     /\ MutateCompleted =>
          /\ NewRun.status = "pending"
          /\ server' = server
          /\ ReadBy(NewRun) # Undefined
          /\ cacheData' # Undefined
          /\ cacheData'.id = ReadBy(NewRun).id
          /\ DOMAIN cacheData'.tasks = DOMAIN ReadBy(NewRun).tasks
          /\ \A k \in DOMAIN cacheData'.tasks :
               IF ReadBy(NewRun).tasks[k].id = NewRun.taskId
                 THEN IsPatched(cacheData'.tasks[k], ReadBy(NewRun).tasks[k],
                                NewRun.data)
                 ELSE cacheData'.tasks[k] = ReadBy(NewRun).tasks[k]]_vars

\* A pending update whose new field is in the cache and not yet in the backend.
C11_Witness ==
  \E m \in DOMAIN mutations :
    /\ mutations[m].status = "pending"
    /\ cacheData # Undefined
    /\ \E k \in DOMAIN cacheData.tasks, f \in DOMAIN mutations[m].data :
         /\ cacheData.tasks[k].id = mutations[m].taskId
         /\ cacheData.tasks[k][f] = mutations[m].data[f]
         /\ server.tasks[k][f] # mutations[m].data[f]

\* The patch of run r applied to value v.
PatchOf(r, v) == OptimisticPatch(v, r.taskId, r.data)

\* C12 as stated: when update B is called while the update A called just
\* before it is pending, B's snapshot is A's patch over A's snapshot and the
\* cache holds B's patch over A's patch over A's snapshot.
C12_SecondSnapshotIsFirstPatch ==
  [][\A b \in DOMAIN mutations :
       (/\ b > 1
        /\ mutations[b].status = "onMutate"
        /\ mutations'[b].status = "pending"
        /\ mutations[b - 1].status = "pending") =>
         LET a == mutations[b - 1]
             afterA == PatchOf(a, ReadBy(a))
         IN /\ ReadBy(mutations'[b]) = afterA
            /\ cacheData' = PatchOf(mutations'[b], afterA)]_vars

\* C12, amended: every update patches the value its onMutate finds in the
\* cache once the reload in flight is cancelled and keeps that value as its
\* own snapshot, which no later step changes; onMutate runs in call order; so
\* when the cache still holds A's patched value as B's onMutate reads it,
\* B's snapshot is that value and the cache then holds B's patch over A's.
C12_PatchesInCallOrderOwnSnapshots ==
  [][/\ \A m \in Started(mutations) :
          /\ m \in Started(mutations')
          /\ mutations'[m].context = mutations[m].context
          /\ mutations'[m].taskId = mutations[m].taskId
          /\ mutations'[m].data = mutations[m].data
     /\ MutateCompleted =>
          /\ Started(mutations') = 1..Cardinality(Started(mutations'))
          /\ ReadBy(NewRun) = CancelQueries.data
          /\ cacheData' = PatchOf(NewRun, CancelQueries.data)
          /\ \A m \in Started(mutations) :
               CancelQueries.data = PatchOf(mutations[m], ReadBy(mutations[m]))
                 => /\ ReadBy(NewRun) = PatchOf(mutations[m], ReadBy(mutations[m]))
                    /\ cacheData' = PatchOf(NewRun,
                         PatchOf(mutations[m], ReadBy(mutations[m])))]_vars

\* A then B, both pending, both changing the project: B's snapshot is A's
\* patched value, A's is the original, and the cache holds B over A.
C12_Witness ==
  /\ Len(mutations) = 2
  /\ mutations[1].status = "pending"
  /\ mutations[2].status = "pending"
  /\ mutations[1].context.previousProject = InitialProject
  /\ mutations[2].context.previousProject
       = PatchOf(mutations[1], InitialProject)
  /\ mutations[2].context.previousProject # InitialProject
  /\ cacheData = PatchOf(mutations[2], mutations[2].context.previousProject)
  /\ cacheData # mutations[2].context.previousProject

\* The step is the end of the PATCH call of run m, resolved or rejected.
Settles(m) ==
  /\ mutations[m].status = "pending"
  /\ mutations'[m].status # "pending"

\* The step opens the detail page.
PageOpens == ~mounted /\ mounted'

C16_CachedValueShownWithoutError ==
  /\ (mounted /\ cacheData # Undefined)
       => (PageShowsProject /\ RenderedErrors = {})
  /\ (dashboard /\ listData # Undefined)
       => (DashboardShowsList /\ ~DashboardShowsError)

\* The step opens the dashboard.
DashboardOpens == ~dashboard /\ dashboard'

\* C18: a page opened on an invalidated key starts a reload whatever the age
\* of the data, and while a key is invalidated and its reload is in flight
\* the page on screen shows the value cached before: the project, or the list.
C18_InvalidatedReloadsAndStaysVisible ==
  [][/\ (PageOpens /\ isInvalidated) => fetching'
     /\ (DashboardOpens /\ listInvalidated) => listFetching'
     /\ (mounted' /\ isInvalidated' /\ fetching' /\ cacheData # Undefined)
          => (cacheData' = cacheData /\ PageShowsProject')
     /\ (dashboard' /\ listInvalidated' /\ listFetching' /\ listData # Undefined)
          => (listData' = listData /\ DashboardShowsList')]_vars

\* The step is the end of a successful taskApi.create or taskApi.update call.
TaskWritten ==
  \/ lastTaskId' > lastTaskId
  \/ \E m \in DOMAIN mutations :
       mutations[m].status = "pending" /\ mutations'[m].status = "success"

\* C14: the step in which a task is created or updated leaves the project
\* key invalidated and, where a projects list is cached, the list key too.
C14_TaskWriteInvalidatesBothKeys ==
  [][TaskWritten =>
       /\ isInvalidated'
       /\ listData # Undefined => listInvalidated']_vars

\* The step is the end of a successful projectApi.create call.
ProjectCreated == Len(created') > Len(created)

\* The list v holds the k-th created project, under the name the backend
\* holds it by and with no tasks.
ListsNewProject(v, k, name) ==
  \E j \in DOMAIN v.projects :
    /\ v.projects[j].id = InitialProject.id + k
    /\ v.projects[j].name = name
    /\ v.projects[j].taskCount = 0

\* C15: the step in which a project is created leaves the list key
\* invalidated and, with the dashboard on screen, a reload in flight; a
\* dashboard opened on the invalidated key starts a reload whatever the age of
\* the list; and a cached list that is not invalidated holds every project
\* created so far that has not been deleted since, with taskCount 0.
C15_CreateProjectInvalidatesList ==
  [][/\ ProjectCreated => listInvalidated' /\ (dashboard => listFetching')
     /\ (DashboardOpens /\ listInvalidated) => listFetching'
     /\ (listData' # Undefined /\ ~listInvalidated')
          => \A k \in DOMAIN created' :
               ~created'[k].deleted
                 => ListsNewProject(listData', k, created'[k].name)]_vars

\* C17: stale time is at most cache time for both keys, and a page
\* that opens never gets a cached value that is older than the cache time:
\* the value is gone and the page waits for a load.
C17_NothingServedPastEvictAfter ==
  [][/\ StaleTimeMs <= GcTimeMs
     /\ ListStaleTimeMs <= ListGcTimeMs
     /\ PageOpens => (cacheData' = Undefined \/ age < GcTimeMs)
     /\ DashboardOpens => (listData' = Undefined \/ listAge < ListGcTimeMs)]_vars

\* The step is a call of fn in slot c: the call runs up to its first await.
Called(c, fn) ==
  /\ calls'[c] # calls[c]
  /\ Free(c)
  /\ calls'[c].fn = fn

\* The step is the return or throw of the call of fn in slot c that was
\* awaiting the body of its response.
Returned_(c, fn) ==
  /\ calls[c] # Null
  /\ calls[c].fn = fn
  /\ calls[c].phase = "body"
  /\ calls'[c].phase = "done"

\* C19: a request sent through apiRequest has an Authorization header exactly
\* when a token is stored at the call, and the header is then Bearer followed
\* by that token; what is stored later, while the call awaits, changes
\* nothing of what was sent.
C19_BearerExactlyWhenTokenStored ==
  [][\A c \in CallSlots :
       /\ Called(c, "apiRequest") =>
            /\ calls'[c].sent
            /\ (token # Null) <=> ("Authorization" \in DOMAIN calls'[c].headers)
            /\ token # Null =>
                 calls'[c].headers["Authorization"] = <<"Bearer", token.value>>
       /\ (calls[c] # Null /\ calls[c].sent /\ ~Free(c)) =>
            calls'[c].headers = calls[c].headers]_vars

\* Two requests await at once, the first sent without a token and the second
\* with the token stored since in its Authorization header.
C19_Witness ==
  /\ token = [value |-> "jwt-b"]
  /\ calls["first"] # Null
  /\ calls["first"].fn = "apiRequest"
  /\ calls["first"].phase = "fetch"
  /\ "Authorization" \notin DOMAIN calls["first"].headers
  /\ calls["second"] # Null
  /\ calls["second"].fn = "apiRequest"
  /\ calls["second"].phase = "fetch"
  /\ "Authorization" \in DOMAIN calls["second"].headers
  /\ calls["second"].headers["Authorization"] = <<"Bearer", "jwt-b">>

\* The body is a JSON object with the error envelope: a code and a message.
HasErrorEnvelope(body) ==
  /\ body.kind = "object"
  /\ "error" \in DOMAIN body.value
  /\ "code" \in DOMAIN body.value.error
  /\ "message" \in DOMAIN body.value.error
  /\ body.value.error.message # ""

\* The message a call falls back to when the envelope is missing or malformed.
GenericMessage(fn) == IF fn = "download" THEN "Download failed" ELSE "Request failed"

\* C20: a call that got a non-success status ends as a failure, with an error
\* that carries the code and the message of the server's envelope, or with
\* the generic message when the body holds no such envelope.
C20_NonSuccessFailsWithCodeAndMessage ==
  [][\A c \in CallSlots, fn \in {"apiRequest", "download"} :
       (Returned_(c, fn) /\ ~IsOk(calls[c].response)) =>
         /\ calls'[c].outcome.threw
         /\ IF HasErrorEnvelope(calls[c].response.body)
              THEN /\ "code" \in DOMAIN calls'[c].outcome.error
                   /\ calls'[c].outcome.error.code
                        = calls[c].response.body.value.error.code
                   /\ calls'[c].outcome.error.message
                        = calls[c].response.body.value.error.message
              ELSE calls'[c].outcome.error.message = GenericMessage(fn)]_vars

\* C21: a download called with no token stored sends nothing and fails with
\* 'Not authenticated'; one called with a token sends the request with that
\* token in its Authorization header; and the file is saved only by a call
\* that sent its request and got a success response.
C21_DownloadNeedsTokenAndSuccess ==
  [][\A c \in CallSlots :
       /\ Called(c, "download") =>
            IF token = Null
              THEN /\ ~calls'[c].sent
                   /\ calls'[c].phase = "done"
                   /\ calls'[c].outcome = Thrown("Error", "Not authenticated")
                   /\ ~calls'[c].saved
              ELSE /\ calls'[c].sent
                   /\ calls'[c].phase = "fetch"
                   /\ DOMAIN calls'[c].headers = {"Authorization"}
                   /\ calls'[c].headers["Authorization"]
                        = <<"Bearer", token.value>>
       /\ Returned_(c, "download") =>
            /\ calls'[c].headers = calls[c].headers
            /\ calls'[c].saved <=> IsOk(calls[c].response)
       /\ (/\ calls'[c] # calls[c]
           /\ calls'[c].fn = "download"
           /\ calls'[c].phase = "done"
           /\ calls'[c].saved)
            => /\ Returned_(c, "download")
               /\ calls[c].sent
               /\ IsOk(calls[c].response)]_vars

\* A download without a token failed before any request, and one sent with a
\* token has saved its file after the session was logged out.
C21_Witness ==
  /\ token = Null
  /\ calls["first"] # Null
  /\ calls["first"].fn = "download"
  /\ ~calls["first"].sent
  /\ calls["first"].outcome.error.message = "Not authenticated"
  /\ calls["second"] # Null
  /\ calls["second"].fn = "download"
  /\ calls["second"].phase = "done"
  /\ calls["second"].saved

\* A poll of export e answered after its watch ended: the timer is cleared
\* and the callback consumes one more answer in this step.
LateResponseHandled(e) ==
  ~watchers[e].timer /\ \E r \in Replies : Handles(e, r)

\* C24: once the watch of an export has reached a terminal outcome and its
\* timer is cleared, an answer of an earlier poll that arrives later has no
\* effect: no further download, no further alert and no change of the
\* exporting flag.
C24_LateResponseHasNoEffect ==
  [][\A e \in ExportIds :
       LateResponseHandled(e) =>
         /\ watchers'[e].downloads = watchers[e].downloads
         /\ alerts' = alerts
         /\ isExporting' = isExporting]_vars

\* C25: while the page is on screen the exporting flag is true exactly when
\* a poll timer started by that page instance is armed.
C25_FlagExactlyWhenTimerArmed ==
  mounted => (isExporting <=> ArmedTimers # {})

\* C26: the optimistic patch changes the task whose id is taskId and nothing
\* else: the tasks keep their number, order and ids, every other task and
\* every field of the project but `tasks` stay as they were; with nothing
\* cached under the key the patch leaves the key empty and snapshots nothing,
\* and the rejection of such a run writes nothing into the cache.
C26_PatchTouchesOnlyTargetTask ==
  [][/\ MutateCompleted =>
          LET old == CancelQueries.data IN
          IF old = Undefined
            THEN /\ cacheData' = Undefined
                 /\ ReadBy(NewRun) = Undefined
                 /\ age' = CancelQueries.age
            ELSE /\ cacheData' # Undefined
                 /\ DOMAIN cacheData' = DOMAIN old
                 /\ \A f \in DOMAIN old \ {"tasks"} : cacheData'[f] = old[f]
                 /\ Len(cacheData'.tasks) = Len(old.tasks)
                 /\ \A k \in DOMAIN old.tasks :
                      /\ cacheData'.tasks[k].id = old.tasks[k].id
                      /\ old.tasks[k].id # NewRun.taskId =>
                           cacheData'.tasks[k] = old.tasks[k]
     /\ \A m \in DOMAIN mutations :
          (Rejects(m) /\ ReadBy(mutations[m]) = Undefined) =>
            cacheData' = cacheData /\ age' = age /\ cachedAs' = cachedAs]_vars

\* A run called on the empty key has failed with nothing to roll back, and a
\* pending run called on a cached project has changed its target task alone.
C26_Witness ==
  \E m, n \in DOMAIN mutations :
    /\ mutations[m].status = "error"
    /\ mutations[m].context.previousProject = Undefined
    /\ mutations[n].status = "pending"
    /\ mutations[n].context.previousProject # Undefined
    /\ cacheData # Undefined
    /\ \E k, j \in DOMAIN cacheData.tasks :
         /\ cacheData.tasks[k].id = mutations[n].taskId
         /\ cacheData.tasks[k] # mutations[n].context.previousProject.tasks[k]
         /\ j # k
         /\ cacheData.tasks[j] = mutations[n].context.previousProject.tasks[j]

\* The step asks the router for a path, or puts a protected page on screen.
RouterAsked ==
  \/ requested' # requested
  \/ location' # location
  \/ PageOpens
  \/ DashboardOpens

\* C22: a page behind ProtectedRoute is put on screen only with a token
\* stored, at its own path; with no token stored, asking the router for
\* /dashboard, /projects/:id, the root or an unmatched path ends at /login
\* with neither protected page on screen.
C22_ProtectedPagesNeedToken ==
  [][/\ PageOpens => Truthy(token) /\ location' = "/projects/:id"
     /\ DashboardOpens => Truthy(token) /\ location' = "/dashboard"
     /\ (RouterAsked /\ ~Truthy(token)
           /\ requested' \notin {"/login", "/register"}) =>
          /\ location' = "/login"
          /\ ~mounted'
          /\ ~dashboard']_vars

\* With no token stored the router was asked for a path that leads to a
\* protected page, and sits at /login with neither page on screen.
C22_Witness ==
  /\ token = Null
  /\ RouteOf(requested) \in ProtectedPaths
  /\ location = "/login"
  /\ ~mounted
  /\ ~dashboard

\* The step removes an item of the session from the store.
SessionItemRemoved ==
  \/ token # Null /\ token' = Null
  \/ user # Null /\ user' = Null

\* C23: a step that removes the token or the user removes both and leaves the
\* client at /login with neither protected page on screen, so the store never
\* holds one item of the session without the other; and as long as no token
\* is stored again no protected page is put on screen.
C23_LogoutDestroysSession ==
  [][/\ SessionItemRemoved =>
          /\ token' = Null
          /\ user' = Null
          /\ location' = "/login"
          /\ ~mounted'
          /\ ~dashboard'
     /\ (token' = Null) <=> (user' = Null)
     /\ (token = Null /\ token' = Null) => (~mounted' /\ ~dashboard')]_vars

\* A dashboard was on screen, the session is gone, and a later request for a
\* protected page has been sent back to /login.
C23_Witness ==
  /\ dashInstance > 0
  /\ token = Null
  /\ user = Null
  /\ requested = "/dashboard"
  /\ location = "/login"
  /\ ~mounted
  /\ ~dashboard

\* C27: a page never shows a value fetched under another session than the
\* one stored now: after a logout and the login of another
\* user, neither the dashboard's list nor the project of the detail page is
\* the value cached before the logout.
C27_NoValueOfEarlierSession ==
  /\ DashboardShowsList => listCachedAs = token
  /\ (mounted /\ cacheData # Undefined) => cachedAs = token
====
